---------------------------- MODULE Spec2Model ----------------------------
(***************************************************************************)
(* Model of buddha_fractal (src/src/main.rs): N worker threads sample      *)
(* seeds on a disc, iterate the Mandelbrot recurrence, accumulate the      *)
(* diverging orbits into private u16 histograms; the main thread joins     *)
(* them, sums the histograms with saturation, rescales to u8 and writes a  *)
(* PNG.                                                                    *)
(*                                                                         *)
(* f32 values are modelled on the inputs where f32 arithmetic is exact:    *)
(* seeds and the disc radius are small integers, the image centre is a     *)
(* multiple of 1/2 (cx2 = 2*center_x), the scale is 1 and width/height is  *)
(* a power of two.  A screen coordinate is then the exact fraction         *)
(* num/den, kept as the pair of its numerator and denominator.             *)
(***************************************************************************)
EXTENDS Integers, Sequences, FiniteSets

VARIABLES
    args,             \* Opt: the parsed command line (immutable)
    file,             \* the file at args.out_path: [kind, data]
    mainpc,           \* position of the main thread
    err,              \* why the run failed ("none" while it has not)
    n_workers,        \* main: n_workers
    iters_per_worker, \* main: iters_per_worker
    spawned,          \* number of threads spawned so far
    joined,           \* number of JoinHandles joined so far
    status,           \* per worker thread: unspawned/spawned/running/finished/panicked
    wpc,              \* per worker: "loop" (head of the for loop) or "drain"
    taken,            \* per worker: samples consumed from disc(..).take(iters)
    buf,              \* per worker: the `steps` Vec
    image_data,       \* per worker: its histogram
    images,           \* main: Vec<Image> of the joined results
    out_image,        \* main: the summed histogram (Vec<u16>)
    pixels,           \* main: the rescaled image (Vec<u8>)
    it                \* a Complex Iterator under test: [x, y, disc, n, a, b, out, ended]

vars == <<args, file, mainpc, err, n_workers, iters_per_worker, spawned, joined,
          status, wpc, taken, buf, image_data, images, out_image, pixels, it>>

mainVars == <<mainpc, err, n_workers, iters_per_worker, spawned, joined,
              images, out_image, pixels, file>>

workerVars == <<status, wpc, taken, buf, image_data>>

(***************************************************************************)
(* Bounds of the model.                                                    *)
(***************************************************************************)
MaxWorkers == 2    \* threads of a whole run (Spec)
HistWorkers == 3   \* threads of a run taken up at its last points (SpecHist)
MaxIters == 3
MaxSteps == 3
MaxCoord == 3      \* seeds of the Complex Iterator under test (SpecIter)
MaxDisc == 3

\* Values of the command line the model enumerates.
\* Frames are <<width, height, cx2, cy2>>: a zero width, a zero height, the
\* default centre (-0.5, 0) on a 2x1 image and the centre (-0.5, 0.5) on a
\* 1x2 image.
Frames == {<<0, 1, -1, 0>>, <<1, 0, -1, 0>>, <<2, 1, -1, 0>>, <<1, 2, -1, 1>>}
DiscSet == {0, 2}

U16Max == 65535
U8Max == 255

Workers == 1..(IF HistWorkers > MaxWorkers THEN HistWorkers ELSE MaxWorkers)

Min(a, b) == IF a < b THEN a ELSE b

(***************************************************************************)
(* u16::saturating_add                                                     *)
(***************************************************************************)
WrappingAdd(a, b) == (a + b) % (U16Max + 1)

SaturatingAdd(a, b) == IF a + b > U16Max THEN U16Max ELSE a + b

(***************************************************************************)
(* mandelbrot(x, y, disc): one call of the from_fn closure on the state    *)
(* (a, b).  The result is the new state and whether the call returned      *)
(* Some((a, b)) or None.                                                   *)
(***************************************************************************)
MandelNextStale(x, y, disc, a, b) ==
    LET tmp == a * a - b * b + x
        nb == 2 * a * b + y
    IN  [a |-> tmp, b |-> nb, some |-> ~(a * a + b * b > disc * disc)]

MandelNext(x, y, disc, a, b) ==
    LET tmp == a * a - b * b + x
        nb == 2 * a * b + y
        r == disc * disc
    IN  [a |-> tmp, b |-> nb, some |-> ~(tmp * tmp + nb * nb > r)]

\* steps.extend(mandelbrot(x, y, disc).take(n)): the points up to the first
\* None, at most n of them.
RECURSIVE Collect(_, _, _, _, _, _)
Collect(x, y, disc, a, b, n) ==
    IF n = 0 THEN <<>>
    ELSE LET s == MandelNext(x, y, disc, a, b)
         IN  IF s.some
             THEN <<(<<s.a, s.b>>)>> \o Collect(x, y, disc, s.a, s.b, n - 1)
             ELSE <<>>

Path(x, y, disc, n) == Collect(x, y, disc, 0, 0, n)

(***************************************************************************)
(* disc(radius): Uniform::new(-radius, radius) panics unless               *)
(* -radius < radius; the points that pass the filter.                      *)
(***************************************************************************)
DiscPanics(radius) == ~(-radius < radius)

DiscPoints(radius) ==
    {p \in ((-radius)..(radius - 1)) \X ((-radius)..(radius - 1)) :
        p[1] * p[1] + p[2] * p[2] < radius * radius}

(***************************************************************************)
(* Image framing (worker_thread): the screen position of a path point as   *)
(* an exact fraction.  With scale = 1 and aspect = width / height,         *)
(*   x = (((px - cx) / aspect) + 1) / 2 * width                            *)
(*     = ((2 px - cx2) * height + 2 * width) / 4                           *)
(*   y = ((py - cy) + 1) / 2 * height = (2 py - cy2 + 2) * height / 4      *)
(***************************************************************************)
ScreenXNum(a, p) == (2 * p[1] - a.cx2) * a.height + 2 * a.width
ScreenYNum(a, p) == (2 * p[2] - a.cy2 + 2) * a.height
ScreenDen == 4

\* bound_x: width = 0 makes x NaN (inf * 0 or NaN * 0); height = 0 makes the
\* aspect infinite and x = 0.5 * width.
BoundX(a, p) ==
    IF a.width = 0 THEN FALSE
    ELSE IF a.height = 0 THEN TRUE
    ELSE ScreenXNum(a, p) >= 0 /\ ScreenXNum(a, p) < a.width * ScreenDen

\* bound_y: y < height as f32
BoundY(a, p) ==
    ScreenYNum(a, p) >= 0 /\ ScreenYNum(a, p) < a.height * ScreenDen

\* `v as usize` of the f32 num/den: truncation toward zero, negatives to 0.
AsUsize(num, den) == IF num < 0 THEN 0 ELSE num \div den

BoundsAfterTruncation(a, p) ==
    /\ a.width > 0 /\ a.height > 0
    /\ AsUsize(ScreenXNum(a, p), ScreenDen) < a.width
    /\ AsUsize(ScreenYNum(a, p), ScreenDen) < a.height

InBounds(a, p) == BoundX(a, p) /\ BoundY(a, p)

\* idx = x as usize + y as usize * args.width
CellIndex(a, p) ==
    AsUsize(ScreenXNum(a, p), ScreenDen)
        + AsUsize(ScreenYNum(a, p), ScreenDen) * a.width

\* image_data[idx] = image_data[idx].saturating_add(1); cell idx is element
\* idx + 1 of the sequence.
WriteCell(img, idx) == [img EXCEPT ![idx + 1] = SaturatingAdd(img[idx + 1], 1)]

\* The steps of the loop body for one path point.
Plot(a, img, p) == IF InBounds(a, p) THEN WriteCell(img, CellIndex(a, p)) ELSE img

\* vec![0_u16; args.width * args.height]
OnesImage(a) == [k \in 1..(a.width * a.height) |-> 1]

NewImage(a) == [k \in 1..(a.width * a.height) |-> 0]

\* The test on the collected path: `steps.len() != args.steps`
DivergedInverted(path, a) == Len(path) = a.steps

Diverged(path, a) == Len(path) # a.steps


(***************************************************************************)
(* The state after Opt::from_args(): nothing divided, spawned or written.  *)
(***************************************************************************)
Opt(f, r, v, n, s) ==
    [width |-> f[1], height |-> f[2], cx2 |-> f[3], cy2 |-> f[4], disc |-> r,
     div |-> v, iters |-> n, steps |-> s]

\* The command lines of the model, all with --div 1 but the last: every
\* frame of a non-empty image with every disc radius, iteration count and
\* step budget; the empty images with no step budget or the largest; and
\* --div 0 on the 2x1 frame.
Args ==
    {Opt(f, r, 1, n, s) :
        f \in {g \in Frames : g[1] * g[2] > 0}, r \in DiscSet,
        n \in 0..MaxIters, s \in 0..MaxSteps}
    \cup {Opt(f, r, 1, n, s) :
        f \in {g \in Frames : g[1] * g[2] = 0}, r \in DiscSet,
        n \in 0..MaxIters, s \in {0, MaxSteps}}
    \cup {Opt(<<2, 1, -1, 0>>, 2, 0, n, MaxSteps) : n \in 0..MaxIters}

\* The file at out_path before the run: missing, or left by an earlier run.
OldFiles == {[kind |-> "absent", data |-> <<>>], [kind |-> "old", data |-> <<>>]}

NoIter == [x |-> 0, y |-> 0, disc |-> 0, n |-> 0, a |-> 0, b |-> 0,
           out |-> <<>>, ended |-> TRUE]

Init ==
    /\ args \in Args
    /\ file \in OldFiles
    /\ mainpc = "divide"
    /\ err = "none"
    /\ n_workers = 0
    /\ iters_per_worker = 0
    /\ spawned = 0
    /\ joined = 0
    /\ status = [i \in Workers |-> "unspawned"]
    /\ wpc = [i \in Workers |-> "loop"]
    /\ taken = [i \in Workers |-> 0]
    /\ buf = [i \in Workers |-> <<>>]
    /\ image_data = [i \in Workers |-> <<>>]
    /\ images = <<>>
    /\ out_image = <<>>
    /\ pixels = <<>>
    /\ it = NoIter

(***************************************************************************)
(* main: divide work, spawn workers                                        *)
(***************************************************************************)
CeilItersPerWorker(iters, n) == (iters + n - 1) \div n

ItersPerWorker(iters, n) == iters \div n

\* available_parallelism().map(|v| v.get()).unwrap_or(1) is at least 1.
DivideWork ==
    /\ mainpc = "divide"
    /\ \E n \in 1..MaxWorkers :
        /\ n_workers' = n
        /\ iters_per_worker' = ItersPerWorker(args.iters, n)
    /\ mainpc' = "spawn"
    /\ UNCHANGED <<args, file, err, spawned, joined, images, out_image, pixels, it>>
    /\ UNCHANGED workerVars

Spawn ==
    /\ mainpc = "spawn"
    /\ spawned < n_workers
    /\ status' = [status EXCEPT ![spawned + 1] = "spawned"]
    /\ spawned' = spawned + 1
    /\ mainpc' = IF spawned + 1 = n_workers THEN "join" ELSE "spawn"
    /\ UNCHANGED <<args, file, err, n_workers, iters_per_worker, joined, images,
                   out_image, pixels, it>>
    /\ UNCHANGED <<wpc, taken, buf, image_data>>

(***************************************************************************)
(* worker_thread(args, iters_per_worker), run by thread i                  *)
(***************************************************************************)
\* Allocation of image_data and steps, then disc(args.disc).
WorkerStart(i) ==
    /\ status[i] = "spawned"
    /\ image_data' = [image_data EXCEPT ![i] = NewImage(args)]
    /\ buf' = [buf EXCEPT ![i] = <<>>]
    /\ status' = [status EXCEPT ![i] =
                    IF DiscPanics(args.disc) THEN "panicked" ELSE "running"]
    /\ UNCHANGED <<wpc, taken, args, it>>
    /\ UNCHANGED mainVars

\* disc(args.disc).take(iters) has yielded all its points.
LoopDone(i) == taken[i] >= iters_per_worker

\* One turn of the for loop up to the divergence test: the next accepted
\* seed, steps.clear() and steps.extend(..).  Draws the filter rejects
\* change nothing.
WorkerSample(i) ==
    /\ status[i] = "running"
    /\ wpc[i] = "loop"
    /\ ~LoopDone(i)
    /\ \E p \in DiscPoints(args.disc) :
        LET path == Path(p[1], p[2], args.disc, args.steps)
        IN  /\ buf' = [buf EXCEPT ![i] = path]
            /\ wpc' = [wpc EXCEPT ![i] =
                         IF Diverged(path, args) /\ path # <<>>
                         THEN "drain" ELSE "loop"]
    /\ taken' = [taken EXCEPT ![i] = taken[i] + 1]
    /\ UNCHANGED <<status, image_data, args, it>>
    /\ UNCHANGED mainVars

\* One turn of `for (x, y) in steps.drain(..)`.
WorkerPoint(i) ==
    /\ status[i] = "running"
    /\ wpc[i] = "drain"
    /\ image_data' = [image_data EXCEPT ![i] = Plot(args, image_data[i], Head(buf[i]))]
    /\ buf' = [buf EXCEPT ![i] = Tail(buf[i])]
    /\ wpc' = [wpc EXCEPT ![i] = IF Tail(buf[i]) = <<>> THEN "loop" ELSE "drain"]
    /\ UNCHANGED <<status, taken, args, it>>
    /\ UNCHANGED mainVars

\* take(iters) is exhausted: the thread returns image_data.
WorkerFinish(i) ==
    /\ status[i] = "running"
    /\ wpc[i] = "loop"
    /\ LoopDone(i)
    /\ status' = [status EXCEPT ![i] = "finished"]
    /\ UNCHANGED <<wpc, taken, buf, image_data, args, it>>
    /\ UNCHANGED mainVars

(***************************************************************************)
(* main: collect results                                                   *)
(***************************************************************************)
JoinWithoutWaiting(i) == TRUE

\* w.join() returns once thread i has ended.
JoinReturns(i) == status[i] \in {"finished", "panicked"}

Join ==
    /\ mainpc = "join"
    /\ JoinReturns(joined + 1)
    /\ IF status[joined + 1] = "panicked"
       THEN /\ mainpc' = "failed"
            /\ err' = "worker"
            /\ UNCHANGED <<joined, images>>
       ELSE /\ images' = Append(images, image_data[joined + 1])
            /\ joined' = joined + 1
            /\ mainpc' = IF joined + 1 = n_workers THEN "pop" ELSE "join"
            /\ err' = err
    /\ UNCHANGED <<args, file, n_workers, iters_per_worker, spawned, out_image,
                   pixels, it>>
    /\ UNCHANGED workerVars

(***************************************************************************)
(* main: sum images                                                        *)
(***************************************************************************)
\* out_image.iter_mut().zip(image.iter()).for_each(|(o, i)| *o = o.saturating_add(*i))
AddImageShort(o, i) ==
    [k \in 1..Len(o) |-> IF k < Len(i) THEN SaturatingAdd(o[k], i[k]) ELSE o[k]]

AddImage(o, i) ==
    [k \in 1..Len(o) |-> IF k <= Len(i) THEN SaturatingAdd(o[k], i[k]) ELSE o[k]]

Pop ==
    /\ mainpc = "pop"
    /\ out_image' = images[Len(images)]
    /\ images' = SubSeq(images, 1, Len(images) - 1)
    /\ mainpc' = IF Len(images) = 1 THEN "colour" ELSE "sum"
    /\ UNCHANGED <<args, file, err, n_workers, iters_per_worker, spawned, joined,
                   pixels, it>>
    /\ UNCHANGED workerVars

Sum ==
    /\ mainpc = "sum"
    /\ out_image' = AddImage(out_image, Head(images))
    /\ images' = Tail(images)
    /\ mainpc' = IF Tail(images) = <<>> THEN "colour" ELSE "sum"
    /\ UNCHANGED <<args, file, err, n_workers, iters_per_worker, spawned, joined,
                   pixels, it>>
    /\ UNCHANGED workerVars

\* The whole of "Sum images" on a list of images: pop the last, then add
\* the others front to back.
RECURSIVE SumImages(_, _)
SumImages(out, rest) ==
    IF rest = <<>> THEN out
    ELSE SumImages(AddImage(out, Head(rest)), Tail(rest))

MergeImages(list) ==
    SumImages(list[Len(list)], SubSeq(list, 1, Len(list) - 1))

(***************************************************************************)
(* main: determine coloring                                                *)
(***************************************************************************)
PixelWrapped(c, d) == (c \div d) % (U8Max + 1)

\* (i / args.div).min(u8::MAX as u16) as u8
Pixel(c, d) == Min(c \div d, U8Max)

\* A division by zero panics at the first cell.
Colour ==
    /\ mainpc = "colour"
    /\ IF args.div = 0 /\ out_image # <<>>
       THEN /\ mainpc' = "failed"
            /\ err' = "divzero"
            /\ pixels' = pixels
       ELSE /\ pixels' = [k \in 1..Len(out_image) |-> Pixel(out_image[k], args.div)]
            /\ mainpc' = "create"
            /\ err' = err
    /\ UNCHANGED <<args, file, n_workers, iters_per_worker, spawned, joined, images,
                   out_image, it>>
    /\ UNCHANGED workerVars

(***************************************************************************)
(* write_png                                                               *)
(***************************************************************************)
\* File::create(path)?: creates or truncates the file, or fails.
FileCreate ==
    /\ mainpc = "create"
    /\ \E ok \in BOOLEAN :
        IF ok
        THEN /\ file' = [kind |-> "empty", data |-> <<>>]
             /\ mainpc' = "header"
             /\ err' = err
        ELSE /\ file' = file
             /\ mainpc' = "failed"
             /\ err' = "io"
    /\ UNCHANGED <<args, n_workers, iters_per_worker, spawned, joined, images,
                   out_image, pixels, it>>
    /\ UNCHANGED workerVars

\* encoder.write_header()?: the encoder rejects a zero width or height.
WriteHeader ==
    /\ mainpc = "header"
    /\ IF args.width = 0 \/ args.height = 0
       THEN /\ mainpc' = "failed"
            /\ err' = "encoding"
       ELSE /\ mainpc' = "data"
            /\ err' = err
    /\ UNCHANGED <<args, file, n_workers, iters_per_worker, spawned, joined, images,
                   out_image, pixels, it>>
    /\ UNCHANGED workerVars

\* writer.write_image_data(&data)?; Ok(())
WriteImageData ==
    /\ mainpc = "data"
    /\ file' = [kind |-> "png", data |-> pixels]
    /\ mainpc' = "done"
    /\ UNCHANGED <<args, err, n_workers, iters_per_worker, spawned, joined, images,
                   out_image, pixels, it>>
    /\ UNCHANGED workerVars

Next ==
    \/ DivideWork
    \/ Spawn
    \/ \E i \in Workers : WorkerStart(i)
    \/ \E i \in Workers : WorkerSample(i)
    \/ \E i \in Workers : WorkerPoint(i)
    \/ \E i \in Workers : WorkerFinish(i)
    \/ Join
    \/ Pop
    \/ Sum
    \/ Colour
    \/ FileCreate
    \/ WriteHeader
    \/ WriteImageData

Spec == Init /\ [][Next]_vars


(***************************************************************************)
(* SpecIter: the Complex Iterator alone.  mandelbrot(x, y, disc).take(n)   *)
(* is driven one next() at a time from every seed of a grid, inside the    *)
(* disc or not; the rest of the program stands still.                      *)
(***************************************************************************)
IdleArgs == Opt(<<2, 1, -1, 0>>, 2, 1, 0, 0)

Seeds == (-MaxCoord)..MaxCoord

InitIter ==
    /\ args = IdleArgs
    /\ file = [kind |-> "absent", data |-> <<>>]
    /\ mainpc = "divide"
    /\ err = "none"
    /\ n_workers = 0
    /\ iters_per_worker = 0
    /\ spawned = 0
    /\ joined = 0
    /\ status = [i \in Workers |-> "unspawned"]
    /\ wpc = [i \in Workers |-> "loop"]
    /\ taken = [i \in Workers |-> 0]
    /\ buf = [i \in Workers |-> <<>>]
    /\ image_data = [i \in Workers |-> <<>>]
    /\ images = <<>>
    /\ out_image = <<>>
    /\ pixels = <<>>
    /\ it \in {[x |-> x, y |-> y, disc |-> d, n |-> n, a |-> 0, b |-> 0,
                out |-> <<>>, ended |-> FALSE] :
                    x \in Seeds, y \in Seeds, d \in 0..MaxDisc, n \in 0..MaxSteps}

\* One next() of Take<FromFn>: extend() stops at the first None and after
\* n points.
IterNext ==
    /\ ~it.ended
    /\ Len(it.out) < it.n
    /\ LET s == MandelNext(it.x, it.y, it.disc, it.a, it.b)
       IN  it' = [it EXCEPT !.a = s.a, !.b = s.b,
                            !.out = IF s.some THEN Append(@, <<s.a, s.b>>) ELSE @,
                            !.ended = ~s.some]
    /\ UNCHANGED <<args, file>>
    /\ UNCHANGED mainVars
    /\ UNCHANGED workerVars

NextIter == IterNext

SpecIter == InitIter /\ [][NextIter]_vars

(***************************************************************************)
(* SpecHist: the run taken up where every worker is at the last point of   *)
(* its last sample, with the counts of the samples before it drawn from    *)
(* u16 values up to the maximum.  From there the program runs on as in     *)
(* Spec: the last points are plotted, the threads joined, the images       *)
(* summed, rescaled and written.                                           *)
(***************************************************************************)
HistFrame == <<2, 1, -1, 0>>
HistImages == {<<0, 509>>, <<65534, 1>>, <<65535, 2>>}
HistPoints == {<<-1, -1>>, <<2, 0>>}
HistDivs == {1, 2, 257}

InitHist ==
    /\ \E n \in 1..HistWorkers :
        /\ n_workers = n
        /\ spawned = n
        /\ \E v \in HistDivs : args = Opt(HistFrame, 2, v, n, 3)
        /\ status = [i \in Workers |-> IF i <= n THEN "running" ELSE "unspawned"]
        /\ wpc = [i \in Workers |-> IF i <= n THEN "drain" ELSE "loop"]
        /\ taken = [i \in Workers |-> IF i <= n THEN 1 ELSE 0]
        /\ buf \in [Workers -> {<<p>> : p \in HistPoints} \cup {<<>>}]
        /\ \A i \in Workers : (buf[i] = <<>>) <=> (i > n)
        /\ image_data \in [Workers -> HistImages \cup {<<>>}]
        /\ \A i \in Workers : (image_data[i] = <<>>) <=> (i > n)
    /\ file \in OldFiles
    /\ mainpc = "join"
    /\ err = "none"
    /\ iters_per_worker = 1
    /\ joined = 0
    /\ images = <<>>
    /\ out_image = <<>>
    /\ pixels = <<>>
    /\ it = NoIter

NextHist ==
    \/ \E i \in Workers : WorkerPoint(i)
    \/ \E i \in Workers : WorkerFinish(i)
    \/ Join
    \/ Pop
    \/ Sum
    \/ Colour
    \/ FileCreate
    \/ WriteHeader
    \/ WriteImageData

SpecHist == InitHist /\ [][NextHist]_vars


(***************************************************************************)
(* Properties                                                              *)
(***************************************************************************)
AfterJoin == {"pop", "sum", "colour", "create", "header", "data", "done"}

Area == args.width * args.height

\* The threads of this run.
Running == 1..n_workers

RECURSIVE CellSum(_, _)
CellSum(k, n) == IF n = 0 THEN 0 ELSE image_data[n][k] + CellSum(k, n - 1)

RECURSIVE TakenSum(_)
TakenSum(n) == IF n = 0 THEN 0 ELSE taken[n] + TakenSum(n - 1)

\* C1: a run that has failed (worker panic, I/O error, encoding error) has
\* not created, truncated or written the file at the output path.
C1_NoOutputOnFailure == mainpc = "failed" => file \in OldFiles

\* C6: the iterations are divided by floor division: every worker is given
\* floor(iters / N) samples, never consumes more, has consumed exactly that
\* many when it finishes, and the total N * floor(iters / N) is at most
\* iters and falls short of it by less than N.
C6_FloorPartition ==
    mainpc # "divide" =>
        /\ n_workers >= 1
        /\ iters_per_worker * n_workers <= args.iters
        /\ args.iters - iters_per_worker * n_workers < n_workers
        /\ \A i \in Workers :
            /\ taken[i] <= iters_per_worker
            /\ status[i] = "finished" => taken[i] = iters_per_worker
        /\ mainpc \in AfterJoin => TakenSum(n_workers) = n_workers * iters_per_worker

C6_Witness ==
    /\ mainpc = "done"
    /\ n_workers = 2
    /\ args.iters = 3
    /\ taken[1] = 1
    /\ taken[2] = 1

C7_Renderable ==
    /\ args.disc > 0
    /\ args.div >= 1
    /\ args.width >= 1
    /\ args.height >= 1

C8_PathInv ==
    \A i \in Workers :
        /\ Len(buf[i]) <= args.steps
        /\ wpc[i] = "drain" => (buf[i] # <<>> /\ Len(buf[i]) < args.steps)

\* The effect of taking a sample and of draining one point.
C8_Step ==
    \A i \in Workers :
        /\ taken'[i] = taken[i] + 1 =>
            /\ image_data'[i] = image_data[i]
            /\ \E p \in DiscPoints(args.disc) :
                 buf'[i] = Path(p[1], p[2], args.disc, args.steps)
            /\ Len(buf'[i]) = args.steps => wpc'[i] = "loop"
            /\ (Len(buf'[i]) < args.steps /\ buf'[i] # <<>>) => wpc'[i] = "drain"
        /\ (status[i] = "running" /\ image_data'[i] # image_data[i]) => wpc[i] = "drain"
        /\ (wpc[i] = "drain" /\ buf'[i] # buf[i]) =>
            /\ buf'[i] = Tail(buf[i])
            /\ (wpc'[i] = "loop") <=> (buf'[i] = <<>>)
            /\ InBounds(args, Head(buf[i])) =>
                LET k == CellIndex(args, Head(buf[i])) + 1
                IN  image_data'[i][k] = Min(U16Max, image_data[i][k] + 1)

\* C8: the collected path never has more than `steps` points; a sample
\* whose path has exactly `steps` points leaves the histogram unchanged and
\* is never drained; a shorter path is drained point by point, from its
\* first point to its last, and every point of it that is in the frame
\* adds 1 to its cell.
C8_DivergenceRule == []C8_PathInv /\ [][C8_Step]_vars

\* A worker whose last sample did not diverge beside one draining a path.
C8_Witness ==
    \E i, j \in Workers :
        /\ status[i] = "running" /\ wpc[i] = "loop" /\ taken[i] = 1
        /\ args.steps = 3 /\ Len(buf[i]) = 3
        /\ image_data[i] = NewImage(args)
        /\ wpc[j] = "drain" /\ Len(buf[j]) = 1
        /\ \E k \in DOMAIN image_data[j] : image_data[j][k] = 1

\* The bounds check on the screen coordinates themselves.
C9_InFrame(p) ==
    /\ args.width > 0 /\ args.height > 0
    /\ 0 <= ScreenXNum(args, p) /\ ScreenXNum(args, p) < args.width * ScreenDen
    /\ 0 <= ScreenYNum(args, p) /\ ScreenYNum(args, p) < args.height * ScreenDen

\* The cell of the truncated coordinates.
C9_Cell(p) ==
    AsUsize(ScreenXNum(args, p), ScreenDen)
        + AsUsize(ScreenYNum(args, p), ScreenDen) * args.width

C9_Counted(i, p) ==
    /\ C9_Cell(p) < Area
    /\ image_data'[i] =
         [image_data[i] EXCEPT ![C9_Cell(p) + 1] = Min(U16Max, @ + 1)]

\* C9 (as stated): a drained point is counted if and only if its truncated
\* pixel indices satisfy 0 <= screen_x < width and 0 <= screen_y < height.
C9_TruncatedBounds ==
    [][\A i \in Workers :
          (wpc[i] = "drain" /\ buf'[i] # buf[i]) =>
              IF BoundsAfterTruncation(args, Head(buf[i]))
              THEN C9_Counted(i, Head(buf[i]))
              ELSE image_data'[i] = image_data[i]]_vars

\* C9 (amended): a drained point is counted if and only if its screen
\* coordinates before truncation satisfy 0 <= x < width and 0 <= y < height
\* (a coordinate in (-1, 0) truncates to index 0 and is still discarded); a
\* counted point adds 1 to the cell x + y * width of its truncated
\* coordinates, which is below width * height, and to no other cell; a
\* discarded point leaves the histogram unchanged.
C9_BoundsCheck ==
    [][\A i \in Workers :
          (wpc[i] = "drain" /\ buf'[i] # buf[i]) =>
              IF C9_InFrame(Head(buf[i]))
              THEN C9_Counted(i, Head(buf[i]))
              ELSE image_data'[i] = image_data[i]]_vars

\* The first point of the path was counted; the next one has y = -0.5.
C9_Witness ==
    \E i \in Workers :
        /\ wpc[i] = "drain"
        /\ args.width = 1 /\ args.height = 2
        /\ buf[i] = <<(<<-1, -1>>)>>
        /\ BoundsAfterTruncation(args, Head(buf[i]))
        /\ image_data[i] = <<0, 1>>

\* The main thread is past the joins only when every worker has finished.
C10_Inv ==
    /\ mainpc \in AfterJoin => \A i \in Running : status[i] = "finished"
    /\ (out_image # <<>> \/ pixels # <<>> \/ file \notin OldFiles) =>
           \A i \in Running : status[i] = "finished"
    /\ joined <= spawned
    /\ \A i \in 1..joined : status[i] = "finished"
    /\ mainpc \in {"join", "pop"} =>
           (Len(images) = joined /\ \A i \in 1..joined : images[i] = image_data[i])
    /\ (\E i \in Workers : status[i] = "panicked") =>
           (mainpc \notin AfterJoin /\ out_image = <<>>)

\* A histogram is written by its own thread only, and an ended thread stays
\* ended.
C10_Step ==
    /\ \A i \in Workers :
        image_data'[i] # image_data[i] =>
            /\ status[i] \in {"spawned", "running"}
            /\ i > joined
            /\ UNCHANGED mainVars
            /\ \A j \in Workers \ {i} :
                 image_data'[j] = image_data[j] /\ status'[j] = status[j]
    /\ \A i \in Workers :
        (status[i] \in {"finished", "panicked"}) => status'[i] = status[i]

\* C10: a histogram changes only in a step of the thread that owns it,
\* while that thread runs, and such a step changes nothing of the main
\* thread or of another worker; the main thread takes a thread's histogram
\* only once the thread has finished, and starts the merge, and touches the
\* file, only when every worker has finished; once a worker has panicked
\* the merge never starts.
C10_JoinBarrier == []C10_Inv /\ [][C10_Step]_vars

C10_Witness ==
    /\ mainpc = "done"
    /\ n_workers = 2
    /\ \E k \in DOMAIN image_data[1] : image_data[1][k] > 0
    /\ \E k \in DOMAIN image_data[2] : image_data[2][k] > 0

(***************************************************************************)
(* Properties of the histogram arithmetic, under SpecHist                  *)
(***************************************************************************)
\* C2: once the image is rescaled, it has width * height pixels and pixel k
\* is min(255, c div d) for the cell c at the same place k of the summed
\* histogram, d >= 1 being the divisor; the file written holds these pixels.
\* In particular 511 div 2 and 512 div 2 give 255 and 509 div 2 gives 254.
C2_Rescale ==
    /\ Pixel(511, 2) = 255 /\ Pixel(512, 2) = 255 /\ Pixel(509, 2) = 254
    /\ (mainpc \in {"create", "header", "data", "done"} /\ args.div >= 1) =>
          /\ Len(pixels) = Area
          /\ Len(out_image) = Area
          /\ \A k \in 1..Area :
              LET q == out_image[k] \div args.div
              IN  pixels[k] = IF q > 255 THEN 255 ELSE q
          /\ mainpc = "done" => file = [kind |-> "png", data |-> pixels]

\* 512 div 2 = 256 is clamped to 255 beside a saturated cell.
C2_Witness ==
    /\ mainpc = "done"
    /\ args.div = 2
    /\ out_image = <<65535, 512>>
    /\ file.data = <<255, 255>>

C3_CellStep(old, new) == old <= new /\ new <= U16Max

\* The counters across one step of a worker or of the merge.
C3_Step ==
    /\ \A i \in Workers : \A k \in DOMAIN image_data[i] :
        C3_CellStep(image_data[i][k], image_data'[i][k])
    /\ \A k \in DOMAIN out_image : C3_CellStep(out_image[k], out_image'[k])
    /\ \A i \in Workers :
        (wpc[i] = "drain" /\ buf'[i] # buf[i] /\ C9_InFrame(Head(buf[i]))) =>
            LET k == C9_Cell(Head(buf[i])) + 1
            IN  image_data'[i][k] =
                    IF image_data[i][k] = U16Max THEN U16Max ELSE image_data[i][k] + 1
    /\ (mainpc = "sum" /\ images' # images) =>
        \A k \in DOMAIN out_image :
            LET t == out_image[k] + Head(images)[k]
            IN  out_image'[k] = IF t > U16Max THEN U16Max ELSE t

\* C3: in every step of a worker and of the merge every counter stays or
\* grows and never exceeds 65535: a plotted point sets its cell to
\* min(65535, cell + 1) and the sum of two images sets each cell to
\* min(65535, a + b), so a counter at the maximum stays there.
C3_Saturating == [][C3_Step]_vars

\* A worker's counter was raised from 65534 to the maximum, and the merge
\* of cell 1 saturated.
C3_Witness ==
    /\ mainpc = "colour"
    /\ \E i \in Running : image_data[i] = <<65535, 1>>
    /\ \E i \in Running : image_data[i] = <<65535, 2>>
    /\ CellSum(1, n_workers) > U16Max
    /\ out_image[1] = U16Max

Permutations(n) ==
    {f \in [1..n -> 1..n] : \A a, b \in 1..n : f[a] = f[b] => a = b}

\* The histograms the workers returned, in the order of their threads.
Returned == [i \in 1..n_workers |-> image_data[i]]

\* C4: when the merge is over, every cell of the summed histogram is
\* min(65535, sum of that cell over all workers), and merging the workers'
\* histograms in any other order gives the same histogram.
C4_OrderIndependent ==
    mainpc = "colour" =>
        /\ Len(out_image) = Area
        /\ \A k \in 1..Area : out_image[k] = Min(U16Max, CellSum(k, n_workers))
        /\ \A f \in Permutations(n_workers) :
            MergeImages([i \in 1..n_workers |-> Returned[f[i]]]) = out_image

\* Three different histograms, one cell saturated and one not.
C4_Witness ==
    /\ mainpc = "colour"
    /\ n_workers = 3
    /\ image_data[1] # image_data[2]
    /\ image_data[2] # image_data[3]
    /\ image_data[1] # image_data[3]
    /\ out_image[1] = U16Max
    /\ out_image[2] = 512

(***************************************************************************)
(* Properties of the Complex Iterator, under SpecIter                      *)
(***************************************************************************)
IterOver == it.ended \/ Len(it.out) = it.n

\* C5 (as stated): a seed with x*x + y*y >= disc*disc yields at most one
\* point.
C5_AtMostOnePoint ==
    (it.x * it.x + it.y * it.y >= it.disc * it.disc) => Len(it.out) <= 1

\* C5 (amended): a seed with x*x + y*y > disc*disc yields no point at all
\* (the first next() returns None); a seed with x*x + y*y = disc*disc yields
\* its first point and may yield more.  The points collected are those of
\* Path.
C5_OutsideYieldsNothing ==
    /\ (it.x * it.x + it.y * it.y > it.disc * it.disc) => it.out = <<>>
    /\ (it.x * it.x + it.y * it.y = it.disc * it.disc /\ it.n > 0 /\ IterOver) =>
           Len(it.out) >= 1
    /\ IterOver => it.out = Path(it.x, it.y, it.disc, it.n)

C5_Witness ==
    /\ it.ended
    /\ it.n = MaxSteps
    /\ it.x * it.x + it.y * it.y > it.disc * it.disc
    /\ it.disc = 2

=============================================================================
